---- MODULE Spec2Model ----
(***************************************************************************)
(* replacer: render a Handlebars template against a map of replacements    *)
(* and write the result below an output directory.                         *)
(*                                                                         *)
(* The model follows go() of src/main.rs (the same pipeline as render() of *)
(* src/writer.rs, preceded by parse_input_files): every invocation of the  *)
(* program is one run of                                                   *)
(*   parse_input_files -> render_template -> write_template_file           *)
(* against a small file system.  Strings are sequences: a path is the      *)
(* sequence of its components, a file's content the sequence of its bytes, *)
(* an error description the sequence of its chunks of text.                *)
(***************************************************************************)
EXTENDS Integers, Sequences, FiniteSets, TLC

(* ------------------------------ bounds -------------------------------- *)
MaxTplLen == 2
MaxRuns == 2
MaxOldLen == 3
MaxDescLen == 3

Procs == {1, 2}

(* ------------------------------ inputs -------------------------------- *)
Keys == {"a", "b"}
Vals == {<<>>, <<"v">>, <<"<">>}

Lit(c) == [t |-> "lit", v |-> c]
Var(k) == [t |-> "var", v |-> k]
Unterminated(k) == [t |-> "open", v |-> k]

Elems == {Lit("x"), Var("a"), Var("b"), Unterminated("a")}

Templates == UNION {[1..n -> Elems] : n \in 0..MaxTplLen}

\* the replacements: "a" has any of the values, "b" the one-letter value
Mappings ==
    {m \in UNION {[S -> Vals] : S \in SUBSET Keys} :
        "b" \in DOMAIN m => m["b"] = <<"v">>}

Configs == Templates \X Mappings

ConcConfigs ==
    {<<<<Lit("x"), Var("a")>>, [k \in {"a"} |-> <<"<">>]>>,
     <<<<Var("a")>>, [k \in {"a"} |-> <<"v">>]>>,
     <<<<Var("b")>>, [k \in {"a"} |-> <<"v">>]>>,
     <<<<Unterminated("a")>>, [k \in {"a"} |-> <<"v">>]>>}

NoTemplate == <<>>
NoMappings == <<>>

(* ------------------------------ paths --------------------------------- *)
InputFile == <<"tpl", "input.txt">>
ReplacementsFile == <<"replacements.yaml">>
ConfigFile == <<"config.yaml">>
OutputDir == <<"out", "sub">>

FileName(path) == path[Len(path)]

Join(dir, name) == dir \o <<name>>

OutputFile == Join(OutputDir, FileName(InputFile))

NoParent == <<"<none>">>

Parent(path) == IF path = <<>> THEN NoParent ELSE SubSeq(path, 1, Len(path) - 1)

FsPaths == {SubSeq(OutputFile, 1, n) : n \in 1..Len(OutputFile)}

(* --------------------------- file system ------------------------------ *)
Absent == [kind |-> "none", w |-> FALSE, data |-> <<>>]
Dir(w) == [kind |-> "dir", w |-> w, data |-> <<>>]
RegularFile(w, data) == [kind |-> "file", w |-> w, data |-> data]

Node(fs, path) == IF path = <<>> THEN Dir(TRUE) ELSE fs[path]

IsDir(fs, path) == Node(fs, path).kind = "dir"

OldData == [i \in 1..MaxOldLen |-> "o"]

TreeOk(fs) ==
    \A p \in FsPaths :
        fs[p].kind # "none" => IsDir(fs, Parent(p))

InitialTrees ==
    {fs \in [FsPaths -> {Absent, Dir(TRUE), Dir(FALSE),
                         RegularFile(TRUE, OldData), RegularFile(FALSE, OldData)}] :
        /\ TreeOk(fs)
        /\ fs[<<"out">>] # Dir(FALSE)
        /\ fs[<<"out">>].kind = "file" => fs[<<"out">>].w
        /\ fs[OutputDir].kind = "file" => fs[OutputDir].w
        /\ fs[OutputFile] # Dir(FALSE)}

(* ------------------------------ errors -------------------------------- *)
Err(kind, payload) == [kind |-> kind, payload |-> payload]
Ok(path) == [kind |-> "Ok", payload |-> path]
NoOutcome == [kind |-> "None", payload |-> <<>>]

ErrorKinds ==
    {"FileNotFound", "ReadFailed", "RenderError", "MissingKey", "InvalidTemplate",
     "CannotOpenFileForWriting", "CannotCreateOutputDirectories"}

StartsWith(s, prefix) ==
    /\ Len(s) >= Len(prefix)
    /\ SubSeq(s, 1, Len(prefix)) = prefix

(* ---------------------- handlebars: registration ---------------------- *)
TemplateName == "input"

SyntaxOk(tpl) == \A i \in 1..Len(tpl) : tpl[i].t # "open"

InvalidSyntaxReason == <<"invalid handlebars syntax.">>

\* register_template_source: the source is read to the end first (an I/O
\* failure is IOError), the text read is then compiled (TemplateError).
RegisterTemplateSource(ioFails, tpl) ==
    IF ioFails THEN [tag |-> "IOError", reason |-> <<>>]
    ELSE IF ~SyntaxOk(tpl) THEN [tag |-> "TemplateError", reason |-> InvalidSyntaxReason]
    ELSE [tag |-> "Ok", reason |-> <<>>]

IoErrorMessage == <<"I/O Error when rendering template.">>

MapRegisterErrorSwapped(e) ==
    IF e.tag = "TemplateError"
    THEN Err("RenderError", IoErrorMessage)
    ELSE Err("InvalidTemplate", e.reason)

\* the map_err closure on register_template_source's error
MapRegisterError(e) ==
    IF e.tag = "TemplateError"
    THEN Err("InvalidTemplate", e.reason)
    ELSE Err("RenderError", IoErrorMessage)

(* ------------------------ handlebars: rendering ----------------------- *)
StrictModeOff == FALSE

\* handlebars.set_strict_mode(true)
StrictMode == TRUE

\* the default escape function of the registry (html_escape)
EscapeChar(c) ==
    CASE c = "<" -> <<"&", "l", "t", ";">>
      [] c = ">" -> <<"&", "g", "t", ";">>
      [] c = "&" -> <<"&", "a", "m", "p", ";">>
      [] OTHER -> <<c>>

RECURSIVE Escape(_)
Escape(val) ==
    IF val = <<>> THEN <<>> ELSE EscapeChar(Head(val)) \o Escape(Tail(val))

StrictError(key) == <<"Variable", key, "not found in strict mode.">>

TemplateNotFound(name) == <<"Template not found", name>>

RenderOk(text) == [ok |-> TRUE, text |-> text, desc |-> <<>>]
RenderErr(desc) == [ok |-> FALSE, text |-> <<>>, desc |-> desc]

\* the elements of the template are rendered in order into one output; the
\* first element that fails ends the rendering with its error
RECURSIVE RenderElems(_, _, _, _, _)
RenderElems(tpl, map, strict, i, acc) ==
    IF i > Len(tpl) THEN RenderOk(acc)
    ELSE IF tpl[i].t = "lit" THEN RenderElems(tpl, map, strict, i + 1, acc \o <<tpl[i].v>>)
    ELSE IF tpl[i].v \in DOMAIN map
         THEN RenderElems(tpl, map, strict, i + 1, acc \o Escape(map[tpl[i].v]))
    ELSE IF strict THEN RenderErr(StrictError(tpl[i].v))
    ELSE RenderElems(tpl, map, strict, i + 1, acc)

\* handlebars.render(name, &mappings)
HandlebarsRender(reg, name, tpl, map) ==
    IF name \notin reg THEN RenderErr(TemplateNotFound(name))
    ELSE RenderElems(tpl, map, StrictMode, 1, <<>>)

CouldntRecognize == <<"Couldn't recognize template.">>

ClassifyRenderErrorLoose(desc) ==
    IF StartsWith(desc, <<"Variable">>) THEN Err("MissingKey", desc)
    ELSE Err("RenderError", desc)

\* the map_err closure on render's error
ClassifyRenderError(desc) ==
    IF StartsWith(desc, <<"Variable">>) THEN Err("MissingKey", desc)
    ELSE IF StartsWith(desc, <<"Template not found">>)
         THEN Err("InvalidTemplate", CouldntRecognize)
    ELSE Err("RenderError", desc)

(* ------------------- std::fs: directories and files ------------------- *)
\* mkdir(2) of one directory
Mkdir(fs, path) ==
    LET par == Parent(path) IN
    IF Node(fs, par).kind = "none" THEN [err |-> "NotFound", fs |-> fs]
    ELSE IF Node(fs, par).kind = "file" THEN [err |-> "NotADirectory", fs |-> fs]
    ELSE IF Node(fs, path).kind # "none" THEN [err |-> "AlreadyExists", fs |-> fs]
    ELSE IF ~Node(fs, par).w THEN [err |-> "PermissionDenied", fs |-> fs]
    ELSE [err |-> "none", fs |-> [fs EXCEPT ![path] = Dir(TRUE)]]

\* the second mkdir of create_dir_all, after the ancestors were created
MkdirAgain(fs, path) ==
    LET m == Mkdir(fs, path) IN
    IF m.err = "none" THEN [ok |-> TRUE, fs |-> m.fs]
    ELSE [ok |-> IsDir(fs, path), fs |-> fs]

\* DirBuilder::new().recursive(true).create(path), i.e. create_dir_all
RECURSIVE CreateDirAll(_, _)
CreateDirAll(fs, path) ==
    IF path = <<>> THEN [ok |-> TRUE, fs |-> fs]
    ELSE LET m == Mkdir(fs, path) IN
         IF m.err = "none" THEN [ok |-> TRUE, fs |-> m.fs]
         ELSE IF m.err = "NotFound"
              THEN LET up == CreateDirAll(fs, Parent(path)) IN
                   IF up.ok THEN MkdirAgain(up.fs, path) ELSE [ok |-> FALSE, fs |-> up.fs]
         ELSE [ok |-> IsDir(fs, path), fs |-> fs]

CanOpen(fs, path) ==
    /\ IsDir(fs, Parent(path))
    /\ \/ fs[path].kind = "file" /\ fs[path].w
       \/ fs[path].kind = "none" /\ Node(fs, Parent(path)).w

\* OpenOptions::new().create(true).write(true).open(path): an existing file
\* is opened as it is, a missing one is created empty; the position is 0
OpenForWrite(fs, path) ==
    IF ~CanOpen(fs, path) THEN [ok |-> FALSE, fs |-> fs]
    ELSE IF fs[path].kind = "file" THEN [ok |-> TRUE, fs |-> fs]
    ELSE [ok |-> TRUE, fs |-> [fs EXCEPT ![path] = RegularFile(TRUE, <<>>)]]

\* Write::write(buf) returns Ok(n): n bytes of buf were stored, 0 < n <= len
\* for a buffer that is not empty; the caller drops n
WriteCounts(len) == IF len = 0 THEN {0} ELSE 1..len

StoreAppending(data, buf, n) == data \o SubSeq(buf, 1, n)

\* the n bytes go to positions 1..n of the file; what the file held beyond
\* them stays
Store(data, buf, n) == SubSeq(buf, 1, n) \o SubSeq(data, n + 1, Len(data))

(* ------------------------------- state -------------------------------- *)
VARIABLES
    files,        \* the file system below the working directory
    template,     \* per invocation: the content of the template file
    mappings,     \* per invocation: the content of the replacements file
    pc,           \* per invocation: the step of go() it is at
    registry,     \* per invocation: the names registered with Handlebars
    rendered,     \* per invocation: RenderResult.result
    outcome,      \* per invocation: what go() returned
    trace,        \* per invocation: the steps executed in this run
    left,         \* per invocation: how many times the program is still run
    files0,       \* per invocation: the file system when this run began
    prev,         \* per invocation: how the run before this one ended
    readFailed,   \* per invocation: reading the template source failed
    stored,       \* per invocation: the count Write::write returned, -1 if none
    lastWriter,   \* the invocation whose write was the latest, 0 if none
    fresh,        \* per invocation: no output directory when the first run began
    seen,         \* per invocation: lastWriter when this run opened the file
    desc,         \* a rendering failure's description
    classified    \* the ProgramError the description was mapped to

vars ==
    <<files, template, mappings, pc, registry, rendered, outcome, trace, left,
      files0, prev, readFailed, stored, lastWriter, fresh, seen, desc, classified>>

pipeline ==
    <<files, template, mappings, pc, registry, rendered, outcome, trace, left,
      files0, prev, readFailed, stored, lastWriter, fresh, seen>>

Steps == <<"parse_input_files", "register", "render", "create_dirs", "open", "write">>

OutputSteps == {"create_dirs", "open", "write"}

Executed(p) == {trace[p][i] : i \in 1..Len(trace[p])}

AndAlways(ok, next) == next

\* Result::and_then: the next stage runs on Ok only, an Err is the result
AndThen(ok, next) == IF ok THEN next ELSE "done"

(* ------------------------------- Init --------------------------------- *)
InitPipeline(active, configs, times) ==
    /\ files \in InitialTrees
    /\ \E c \in [active -> configs] :
         /\ template = [p \in Procs |-> IF p \in active THEN c[p][1] ELSE NoTemplate]
         /\ mappings = [p \in Procs |-> IF p \in active THEN c[p][2] ELSE NoMappings]
    /\ pc = [p \in Procs |-> IF p \in active THEN "idle" ELSE "off"]
    /\ registry = [p \in Procs |-> {}]
    /\ rendered = [p \in Procs |-> <<>>]
    /\ outcome = [p \in Procs |-> NoOutcome]
    /\ trace = [p \in Procs |-> <<>>]
    /\ left = [p \in Procs |-> IF p \in active THEN times ELSE 0]
    /\ files0 = [p \in Procs |-> files]
    /\ prev = [p \in Procs |-> "None"]
    /\ readFailed = [p \in Procs |-> FALSE]
    /\ stored = [p \in Procs |-> -1]
    /\ lastWriter = 0
    /\ fresh = [p \in Procs |-> FALSE]
    /\ seen = [p \in Procs |-> 0]

Init ==
    /\ InitPipeline({1}, Configs, MaxRuns)
    /\ desc = <<>>
    /\ classified = NoOutcome

InitConc ==
    /\ InitPipeline(Procs, ConcConfigs, 1)
    /\ desc = <<>>
    /\ classified = NoOutcome

(* ------------------------------ actions ------------------------------- *)
\* main(): one run of the program begins
Invoke(p) ==
    /\ pc[p] \in {"idle", "done"}
    /\ left[p] > 0
    /\ left' = [left EXCEPT ![p] = @ - 1]
    /\ pc' = [pc EXCEPT ![p] = "parse_input_files"]
    /\ prev' = [prev EXCEPT ![p] =
                    IF outcome[p].kind \in {"None", "Ok"} THEN outcome[p].kind ELSE "Err"]
    /\ outcome' = [outcome EXCEPT ![p] = NoOutcome]
    /\ registry' = [registry EXCEPT ![p] = {}]
    /\ rendered' = [rendered EXCEPT ![p] = <<>>]
    /\ trace' = [trace EXCEPT ![p] = <<>>]
    /\ files0' = [files0 EXCEPT ![p] = files]
    /\ readFailed' = [readFailed EXCEPT ![p] = FALSE]
    /\ stored' = [stored EXCEPT ![p] = -1]
    /\ fresh' = [fresh EXCEPT ![p] =
                      IF outcome[p].kind = "None" THEN files[<<"out">>].kind = "none" ELSE @]
    /\ seen' = [seen EXCEPT ![p] = 0]
    /\ UNCHANGED <<files, template, mappings, lastWriter, desc, classified>>

\* parse_input_files: the three input files are opened and deserialized
ParseInputFiles(p) ==
    /\ pc[p] = "parse_input_files"
    /\ trace' = [trace EXCEPT ![p] = Append(@, "parse_input_files")]
    /\ \/ \E path \in {InputFile, ReplacementsFile, ConfigFile} :
            /\ outcome' = [outcome EXCEPT ![p] = Err("FileNotFound", path)]
            /\ pc' = [pc EXCEPT ![p] = AndThen(FALSE, "register")]
       \/ \E path \in {ReplacementsFile, ConfigFile} :
            /\ outcome' = [outcome EXCEPT ![p] = Err("ReadFailed", path)]
            /\ pc' = [pc EXCEPT ![p] = AndThen(FALSE, "register")]
       \/ /\ pc' = [pc EXCEPT ![p] = AndThen(TRUE, "register")]
          /\ UNCHANGED outcome
    /\ UNCHANGED <<files, template, mappings, registry, rendered, left, files0,
                   prev, readFailed, stored, lastWriter, fresh, seen, desc, classified>>

\* render_template, first half: register_template_source(...).map_err(...)?
RegisterTemplate(p) ==
    /\ pc[p] = "register"
    /\ trace' = [trace EXCEPT ![p] = Append(@, "register")]
    /\ \E ioFails \in BOOLEAN :
         LET r == RegisterTemplateSource(ioFails, template[p]) IN
         /\ readFailed' = [readFailed EXCEPT ![p] = ioFails]
         /\ IF r.tag = "Ok"
            THEN /\ registry' = [registry EXCEPT ![p] = @ \cup {TemplateName}]
                 /\ pc' = [pc EXCEPT ![p] = "render"]
                 /\ UNCHANGED outcome
            ELSE /\ outcome' = [outcome EXCEPT ![p] = MapRegisterError(r)]
                 /\ pc' = [pc EXCEPT ![p] = AndThen(FALSE, "create_dirs")]
                 /\ UNCHANGED registry
    /\ UNCHANGED <<files, template, mappings, rendered, left, files0, prev,
                   stored, lastWriter, fresh, seen, desc, classified>>

\* render_template, second half: render(...).map_err(...).map(...)
RenderTemplate(p) ==
    /\ pc[p] = "render"
    /\ trace' = [trace EXCEPT ![p] = Append(@, "render")]
    /\ LET r == HandlebarsRender(registry[p], TemplateName, template[p], mappings[p]) IN
         /\ rendered' = [rendered EXCEPT ![p] = r.text]
         /\ pc' = [pc EXCEPT ![p] = AndThen(r.ok, "create_dirs")]
         /\ outcome' = [outcome EXCEPT ![p] =
                           IF r.ok THEN @ ELSE ClassifyRenderError(r.desc)]
    /\ UNCHANGED <<files, template, mappings, registry, left, files0, prev,
                   readFailed, stored, lastWriter, fresh, seen, desc, classified>>

CreateDirsErrorOfFile(parent_dir, output_file) ==
    Err("CannotCreateOutputDirectories", output_file)

\* ProgramError::CannotCreateOutputDirectories(parent_dir.to_path_buf())
CreateDirsError(parent_dir, output_file) ==
    Err("CannotCreateOutputDirectories", parent_dir)

\* write_template_file, the directories: if let Some(parent_dir) ... create ...?
CreateDirs(p) ==
    /\ pc[p] = "create_dirs"
    /\ trace' = [trace EXCEPT ![p] = Append(@, "create_dirs")]
    /\ LET parent_dir == Parent(OutputFile)
           r == IF parent_dir = NoParent
                THEN [ok |-> TRUE, fs |-> files]
                ELSE CreateDirAll(files, parent_dir)
       IN  /\ files' = r.fs
           /\ IF r.ok
              THEN /\ pc' = [pc EXCEPT ![p] = "open"]
                   /\ UNCHANGED outcome
              ELSE /\ pc' = [pc EXCEPT ![p] = "done"]
                   /\ outcome' = [outcome EXCEPT ![p] =
                                     CreateDirsError(parent_dir, OutputFile)]
    /\ UNCHANGED <<template, mappings, registry, rendered, left, files0, prev,
                   readFailed, stored, lastWriter, fresh, seen, desc, classified>>

\* write_template_file, the file: OpenOptions ... .open(&output_file)
OpenOutput(p) ==
    /\ pc[p] = "open"
    /\ trace' = [trace EXCEPT ![p] = Append(@, "open")]
    /\ seen' = [seen EXCEPT ![p] = lastWriter]
    /\ LET r == OpenForWrite(files, OutputFile) IN
         /\ files' = r.fs
         /\ IF r.ok
            THEN /\ pc' = [pc EXCEPT ![p] = "write"]
                 /\ UNCHANGED outcome
            ELSE /\ pc' = [pc EXCEPT ![p] = "done"]
                 /\ outcome' = [outcome EXCEPT ![p] =
                                   Err("CannotOpenFileForWriting", OutputFile)]
    /\ UNCHANGED <<template, mappings, registry, rendered, left, files0, prev,
                   readFailed, stored, lastWriter, fresh, desc, classified>>

\* write_template_file, the bytes: .and_then(|mut f| f.write(...)).map_err(...)?
\* and Ok(output_file)
WriteOutput(p) ==
    /\ pc[p] = "write"
    /\ trace' = [trace EXCEPT ![p] = Append(@, "write")]
    /\ pc' = [pc EXCEPT ![p] = "done"]
    /\ \/ \E n \in WriteCounts(Len(rendered[p])) :
            /\ files' = [files EXCEPT ![OutputFile].data = Store(@, rendered[p], n)]
            /\ stored' = [stored EXCEPT ![p] = n]
            /\ lastWriter' = p
            /\ outcome' = [outcome EXCEPT ![p] = Ok(OutputFile)]
       \/ /\ outcome' = [outcome EXCEPT ![p] =
                            Err("CannotOpenFileForWriting", OutputFile)]
          /\ UNCHANGED <<files, stored, lastWriter>>
    /\ UNCHANGED <<template, mappings, registry, rendered, left, files0, prev,
                   readFailed, fresh, seen, desc, classified>>

Next ==
    \E p \in Procs :
        \/ Invoke(p)
        \/ ParseInputFiles(p)
        \/ RegisterTemplate(p)
        \/ RenderTemplate(p)
        \/ CreateDirs(p)
        \/ OpenOutput(p)
        \/ WriteOutput(p)

\* one program at a time, run again and again
Spec == Init /\ [][Next]_vars

\* two programs at the same time, writing the same output file
SpecConc == InitConc /\ [][Next]_vars

(* -------------------- the classification on its own ------------------- *)
DescChunks == {"Variable", "Template not found", "Helper not defined", "a"}

Descs == UNION {[1..n -> DescChunks] : n \in 0..MaxDescLen}

InitClassify ==
    /\ InitPipeline({}, {}, 0)
    /\ files = [q \in FsPaths |-> Absent]
    /\ desc \in Descs
    /\ classified = NoOutcome

Classify ==
    /\ classified = NoOutcome
    /\ classified' = ClassifyRenderError(desc)
    /\ UNCHANGED <<desc, pipeline>>

NextClassify == Classify

SpecClassify == InitClassify /\ [][NextClassify]_vars

(* ------------------------------ claims -------------------------------- *)
Done(p) == pc[p] = "done"

Succeeded(p) == Done(p) /\ outcome[p].kind = "Ok"

LastStep(p) == IF trace[p] = <<>> THEN "none" ELSE trace[p][Len(trace[p])]

OutputData == files[OutputFile].data

WroteAll(p) == stored[p] = Len(rendered[p])

\* C1: a run that succeeds on a destination that held a file longer than the
\* rendered text leaves exactly the rendered text in the file (stated for the
\* runs whose write stored every byte, so that only the old tail is at stake).
C1_TruncationOnRewrite ==
    \A p \in Procs :
        ( /\ Succeeded(p)
          /\ WroteAll(p)
          /\ files0[p][OutputFile].kind = "file"
          /\ Len(files0[p][OutputFile].data) > Len(rendered[p]) )
        => OutputData = rendered[p]

\* C4: a run that returns the destination path has stored every byte of the
\* rendered text from the start of the file, and a run that fails at opening
\* or writing returns CannotOpenFileForWriting with the destination path.
C4_CompleteWrite ==
    \A p \in Procs :
        /\ Succeeded(p) => WroteAll(p) /\ StartsWith(OutputData, rendered[p])
        /\ (Done(p) /\ ~Succeeded(p) /\ LastStep(p) \in {"open", "write"})
              => outcome[p] = Err("CannotOpenFileForWriting", OutputFile)

RenderFailures == {"InvalidTemplate", "MissingKey", "RenderError"}

\* C3: once registration or rendering has failed, the run is over with no
\* output step executed, and the file system is as it was when the run began.
C3_NoWriteOnRenderFailure ==
    \A p \in Procs :
        outcome[p].kind \in RenderFailures
        => /\ Done(p)
           /\ Executed(p) \cap OutputSteps = {}
           /\ files = files0[p]

C3_Witness ==
    \E p \in Procs :
        /\ Done(p)
        /\ outcome[p].kind = "MissingKey"
        /\ files[<<"out">>].kind = "none"

\* C5: a run whose directory creation fails returns
\* CannotCreateOutputDirectories with the parent directory of the destination,
\* and has not opened, created or written the destination file; a run that
\* ends at the directory step ends with this error.
C5_CreateDirsFailure ==
    \A p \in Procs :
        /\ outcome[p].kind = "CannotCreateOutputDirectories"
           => /\ Done(p)
              /\ outcome[p].payload = Parent(OutputFile)
              /\ LastStep(p) = "create_dirs"
              /\ Executed(p) \cap {"open", "write"} = {}
              /\ files = files0[p]
        /\ (Done(p) /\ LastStep(p) = "create_dirs")
           => outcome[p].kind = "CannotCreateOutputDirectories"

C5_Witness ==
    \E p \in Procs :
        /\ outcome[p] = Err("CannotCreateOutputDirectories", OutputDir)
        /\ files[<<"out">>].kind = "file"

Placeholders(tpl) == {tpl[i].v : i \in {j \in 1..Len(tpl) : tpl[j].t = "var"}}

MissingAt(tpl, map) ==
    {i \in 1..Len(tpl) : tpl[i].t = "var" /\ tpl[i].v \notin DOMAIN map}

Least(S) == CHOOSE x \in S : \A y \in S : x <= y

FirstMissing(tpl, map) == tpl[Least(MissingAt(tpl, map))].v

\* C2 as stated, for the templates that were read and parsed: a run on a
\* template with a placeholder for a key K that the map lacks ends with
\* MissingKey naming K.
C2_Original ==
    \A p \in Procs : \A K \in Keys :
        ( /\ Done(p)
          /\ "render" \in Executed(p)
          /\ K \in Placeholders(template[p])
          /\ K \notin DOMAIN mappings[p] )
        => /\ outcome[p].kind = "MissingKey"
           /\ outcome[p].payload = StrictError(K)

\* C2: when a template that was registered (it was read and it parsed) has
\* placeholders for keys the map lacks, the run ends with MissingKey whose
\* payload names the first such placeholder of the template, whatever the
\* other missing keys; no output step is executed and the run never succeeds.
C2_Strictness ==
    \A p \in Procs :
        ( /\ Done(p)
          /\ "render" \in Executed(p)
          /\ MissingAt(template[p], mappings[p]) # {} )
        => /\ outcome[p] =
                Err("MissingKey", StrictError(FirstMissing(template[p], mappings[p])))
           /\ Executed(p) \cap OutputSteps = {}

C2_Witness ==
    \E p \in Procs :
        /\ Done(p)
        /\ outcome[p].kind = "MissingKey"
        /\ Cardinality({template[p][i].v : i \in MissingAt(template[p], mappings[p])}) = 2

\* C6 as stated, for the second of two runs on a destination whose directory
\* did not exist before the first: the second run fails neither at the
\* directory nor at opening the file, and when it succeeds the file holds the
\* rendered text.
C6_Original ==
    \A p \in Procs :
        ( /\ Done(p)
          /\ prev[p] = "Ok"
          /\ fresh[p]
          /\ "create_dirs" \in Executed(p) )
        => /\ "write" \in Executed(p)
           /\ Succeeded(p) => OutputData = rendered[p]

\* C7: a run that ends at the registration ends with RenderError and the
\* fixed I/O message when reading the source failed, and with InvalidTemplate
\* and the parser's reason when the source was read and did not parse; a run
\* goes past the registration only when the source was read and parsed.
C7_RegistrationFailures ==
    \A p \in Procs :
        /\ (Done(p) /\ LastStep(p) = "register")
           => /\ readFailed[p] => outcome[p] = Err("RenderError", IoErrorMessage)
              /\ ~readFailed[p]
                 => /\ ~SyntaxOk(template[p])
                    /\ outcome[p] = Err("InvalidTemplate", InvalidSyntaxReason)
        /\ (pc[p] = "render" \/ "render" \in Executed(p))
           => ~readFailed[p] /\ SyntaxOk(template[p])

C7_Witness ==
    \E p \in Procs :
        /\ Done(p)
        /\ LastStep(p) = "register"
        /\ ~readFailed[p]
        /\ outcome[p].kind = "InvalidTemplate"

IsPrefixOf(s, t) == Len(s) <= Len(t) /\ \A i \in 1..Len(s) : s[i] = t[i]

FailingSteps(kind) ==
    CASE kind \in {"FileNotFound", "ReadFailed"} -> {"parse_input_files"}
      [] kind \in {"InvalidTemplate", "RenderError"} -> {"register", "render"}
      [] kind = "MissingKey" -> {"render"}
      [] kind = "CannotCreateOutputDirectories" -> {"create_dirs"}
      [] kind = "CannotOpenFileForWriting" -> {"open", "write"}
      [] OTHER -> {}

\* C8: the steps of a run are executed in the order of the pipeline, each at
\* most once; a run that has not ended has no result and no failure behind
\* it; a run that has ended has one result, the destination path after all
\* the steps or the error of the last step executed.
C8_LinearPipeline ==
    \A p \in Procs :
        /\ IsPrefixOf(trace[p], Steps)
        /\ pc[p] \in {"parse_input_files", "register", "render", "create_dirs", "open", "write"}
           => /\ outcome[p] = NoOutcome
              /\ pc[p] = Steps[Len(trace[p]) + 1]
        /\ Done(p)
           => \/ outcome[p] = Ok(OutputFile) /\ trace[p] = Steps
              \/ /\ outcome[p].kind \in ErrorKinds
                 /\ LastStep(p) \in FailingSteps(outcome[p].kind)

C8_Witness ==
    \E p \in Procs :
        /\ Succeeded(p)
        /\ trace[p] = Steps
        /\ prev[p] = "Err"

BothSucceeded == \A p \in Procs : Succeeded(p)

\* C9 as stated, for two runs that both found no file, both opened it before
\* either wrote and both stored every byte: the file holds the whole output
\* of the run that wrote last.
C9_Original ==
    ( /\ BothSucceeded
      /\ \A p \in Procs : /\ WroteAll(p)
                          /\ seen[p] = 0
                          /\ files0[p][OutputFile].kind = "none" )
    => OutputData = rendered[lastWriter]

\* C9: when two runs on the same destination both succeed, the file begins
\* with the bytes that the run which wrote last stored; what follows them is
\* what the file held there before, so the file can mix the two outputs.
C9_LastWriterWins ==
    BothSucceeded
    => /\ lastWriter \in Procs
       /\ StartsWith(OutputData, SubSeq(rendered[lastWriter], 1, stored[lastWriter]))

C9_Witness ==
    /\ BothSucceeded
    /\ \A p \in Procs : WroteAll(p) /\ files0[p][OutputFile].kind = "none"
    /\ OutputData \notin {rendered[p] : p \in Procs}

\* C10: a rendering failure is MissingKey with its description when the
\* description starts with "Variable", else InvalidTemplate with the fixed
\* reason when it starts with "Template not found", else RenderError with its
\* description.
C10_RenderErrorClasses ==
    classified # NoOutcome
    => IF StartsWith(desc, <<"Variable">>)
       THEN classified = Err("MissingKey", desc)
       ELSE IF StartsWith(desc, <<"Template not found">>)
            THEN classified = Err("InvalidTemplate", CouldntRecognize)
            ELSE classified = Err("RenderError", desc)

C10_Witness ==
    /\ classified = Err("InvalidTemplate", CouldntRecognize)
    /\ Len(desc) = MaxDescLen

====
